---- MODULE Spec2Model ----
(***************************************************************************)
(* Model of the chunking and embedding core of Kg-builder-hybrid:          *)
(*   src/core/document_processor.py  DocumentProcessor                     *)
(*   src/core/embedding_manager.py   EmbeddingManager                      *)
(*   src/core/llm_processor.py       LLMProcessor._cosine_similarity,      *)
(*                                   LLMProcessor.semantic_search          *)
(*   src/core/graph_manager.py       GraphManager                          *)
(*   src/ui/search_interface.py      SearchInterface._combine_results      *)
(*                                                                         *)
(* A Python str is a sequence of one-character strings; " " and "\n" are   *)
(* the whitespace characters that occur.                                   *)
(***************************************************************************)
EXTENDS Integers, Sequences, FiniteSets, TLC

VARIABLES
    \* ---- DocumentProcessor.create_semantic_chunks ----
    document_content,     \* the argument: [pages |-> <<page, ...>>]
    chunk_size,           \* self.chunk_size
    chunk_overlap,        \* self.chunk_overlap
    chunks,               \* the list being built and returned
    chunk_id,             \* the running id
    page_i,               \* index of the page the outer loop is at
    para_i,               \* number of paragraphs of that page consumed
    table_i,              \* number of tables of that page consumed
    current_chunk,        \* the accumulator string
    current_chunk_paras,  \* the contributing paragraph ids
    pc,                   \* position in create_semantic_chunks
    \* ---- EmbeddingManager ----
    vectorizer,           \* self.vectorizer
    fitted,               \* self.fitted
    files,                \* the file system: path -> what is stored there
    ret,                  \* what the last call gave its caller
    \* ---- calls looked at one at a time ----
    call_args,            \* the caller's arguments (the vectors of a similarity
                          \* routine; a record naming the operation otherwise)
    \* ---- callers sharing one EmbeddingManager ----
    threads,              \* per thread: its texts, its position in
                          \* generate_embeddings and its locals
    \* ---- GraphManager ----
    graph                 \* self.driver and the Neo4j database behind it

vars == <<document_content, chunk_size, chunk_overlap, chunks, chunk_id, page_i,
          para_i, table_i, current_chunk, current_chunk_paras, pc,
          vectorizer, fitted, files, ret, call_args, threads, graph>>

chunkerVars == <<document_content, chunk_size, chunk_overlap, chunks, chunk_id,
                 page_i, para_i, table_i, current_chunk, current_chunk_paras, pc>>

embedVars == <<vectorizer, fitted, files, ret>>

\* ------------------------------------------------------------------ bounds

\* Pages of one document.
MaxPages == 2
\* Paragraphs of one document (over all its pages).
MaxParas == 3
\* Tables of one document (over all its pages).
MaxTables == 2

\* ------------------------------------------------------- Python str helpers

Min(a, b) == IF a < b THEN a ELSE b
Max(a, b) == IF a > b THEN a ELSE b

\* str.isspace for the characters of the model.
IsSpace(c) == c \in {" ", "\n"}

RECURSIVE SplitAcc(_, _, _)
SplitAcc(s, word, words) ==
    IF s = <<>>
    THEN IF word = <<>> THEN words ELSE Append(words, word)
    ELSE IF IsSpace(Head(s))
         THEN SplitAcc(Tail(s), <<>>,
                       IF word = <<>> THEN words ELSE Append(words, word))
         ELSE SplitAcc(Tail(s), Append(word, Head(s)), words)

\* str.split(): the maximal runs of non-whitespace characters, in order.
PySplit(s) == SplitAcc(s, <<>>, <<>>)

RECURSIVE LStrip(_)
LStrip(s) == IF s # <<>> /\ IsSpace(Head(s)) THEN LStrip(Tail(s)) ELSE s

RECURSIVE RStrip(_)
RStrip(s) ==
    IF s # <<>> /\ IsSpace(s[Len(s)]) THEN RStrip(SubSeq(s, 1, Len(s) - 1)) ELSE s

\* str.strip(): leading and trailing whitespace removed.
PyStrip(s) == RStrip(LStrip(s))

RECURSIVE PyJoin(_, _)
\* sep.join(parts)
PyJoin(sep, parts) ==
    IF parts = <<>> THEN <<>>
    ELSE IF Len(parts) = 1 THEN parts[1]
    ELSE parts[1] \o sep \o PyJoin(sep, Tail(parts))

\* seq[-k:] for k > 0: the last min(k, len) elements.
LastSlice(seq, k) == SubSeq(seq, Max(Len(seq) - k, 0) + 1, Len(seq))

\* ------------------------------------------- the extraction result (input)

\* The letters paragraphs are written in: page p uses the (2p-1)th and the
\* (2p)th, so that a character of a chunk names the page it came from.
Letters == <<"a", "b", "c", "d", "e", "f", "g", "h", "i", "j">>

\* Paragraph texts as _extract_paragraphs leaves them (stripped, non-empty):
\* a one-word text of one character and a two-word text of three.
ParaTexts(p) ==
    LET x == Letters[2 * p - 1]
        y == Letters[2 * p]
    IN  { <<x>>, <<y, " ", x>> }

\* Table data: a cell is its text, None and '' both the empty text. A table
\* of one row of one cell, and one of two rows with an empty cell.
TableDatas ==
    << << << <<"t">> >> >>,
       << << <<"t">>, <<>> >>, << <<"u">> >> >> >>

\* The data of table i of page p: the two tables in turn.
TableData(p, i) == TableDatas[((p + i) % 2) + 1]

\* What extract_pdf_content builds for page p: page_number p, paragraph ids
\* in source order, table ids table_<page>_<index>; here the pages of np
\* paragraphs and nt tables.
Pages(p, np, nt) ==
    { [page_number |-> p,
       paragraphs |-> [i \in 1..np |-> [paragraph_id |-> i, text |-> ts[i]]],
       tables |-> [i \in 1..nt |->
                     [table_id |-> <<"table", p, i>>, page_number |-> p,
                      data |-> TableData(p, i)]]]
      : ts \in [1..np -> ParaTexts(p)] }

RECURSIVE PageSeqs(_, _, _)
\* The page lists of n pages with at most np paragraphs and nt tables in all.
PageSeqs(n, np, nt) ==
    IF n = 0 THEN { <<>> }
    ELSE UNION { { Append(q, pg) : q \in PageSeqs(n - 1, np - k, nt - t),
                                   pg \in Pages(n, k, t) }
                 : k \in 0..np, t \in 0..nt }

Documents ==
    { [pages |-> d] : d \in UNION { PageSeqs(n, MaxParas, MaxTables) : n \in 0..MaxPages } }

\* chunk_size: the slider's values (500..2000) scaled to the texts above.
ChunkSizes == {2, 4}

\* chunk_overlap, in words: none, one, and the default.
DefaultChunkOverlap == 200
ChunkOverlaps == {0, 1, DefaultChunkOverlap}

\* ------------------------------------ DocumentProcessor: chunk construction

\* Absence of the 'table_id' key (paragraph chunks carry none).
NoTableId == <<>>

\* ' | '.join(str(cell) if cell else '' for cell in row)
RowText(row) ==
    PyJoin(<<" ", "|", " ">>,
           [i \in 1..Len(row) |-> IF row[i] # <<>> THEN row[i] ELSE <<>>])

\* _table_to_text: the non-empty rows, one line each.
TableToText(table_data) ==
    IF table_data = <<>> THEN <<>>
    ELSE LET rows == SelectSeq(table_data, LAMBDA row : row # <<>>)
         IN  PyJoin(<<"\n">>, [i \in 1..Len(rows) |-> RowText(rows[i])])

\* Faulty variant: the size check without "and current_chunk".
ExceedsChunkSizeAlone(cur, para_text, size) == Len(cur \o para_text) > size

\* The size check: len(current_chunk + para_text) > self.chunk_size and current_chunk
ExceedsChunkSize(cur, para_text, size) ==
    Len(cur \o para_text) > size /\ cur # <<>>

\* Faulty variant: the overlap taken from the front of the closed accumulator.
NewChunkStartFirstWords(cur, para_text, overlap) ==
    IF overlap > 0
    THEN PyJoin(<<" ">>, SubSeq(PySplit(cur), 1, Min(overlap, Len(PySplit(cur)))))
             \o <<" ">> \o para_text
    ELSE para_text

\* The accumulator a closed chunk leaves behind.
NewChunkStart(cur, para_text, overlap) ==
    IF overlap > 0
    THEN PyJoin(<<" ">>, LastSlice(PySplit(cur), overlap)) \o <<" ">> \o para_text
    ELSE para_text

\* Faulty variant: the contributing ids go on into the new chunk.
NewChunkParasKept(paras, paragraph_id) == Append(paras, paragraph_id)

\* current_chunk_paras = [paragraph['paragraph_id']]
NewChunkParas(paras, paragraph_id) == <<paragraph_id>>

\* current_chunk += ' ' + para_text if current_chunk else para_text
AppendParagraph(cur, para_text) ==
    IF cur # <<>> THEN cur \o <<" ">> \o para_text ELSE para_text

\* Faulty variant: word_count counts the contributing paragraphs.
ParagraphChunkCountingParas(id, cur, page_num, paras) ==
    [chunk_id |-> id,
     content |-> PyStrip(cur),
     page_number |-> page_num,
     paragraph_numbers |-> paras,
     word_count |-> Len(paras),
     char_count |-> Len(cur),
     chunk_type |-> "paragraph",
     table_id |-> NoTableId]

\* The dict appended for a paragraph chunk.
ParagraphChunk(id, cur, page_num, paras) ==
    [chunk_id |-> id,
     content |-> PyStrip(cur),
     page_number |-> page_num,
     paragraph_numbers |-> paras,
     word_count |-> Len(PySplit(cur)),
     char_count |-> Len(cur),
     chunk_type |-> "paragraph",
     table_id |-> NoTableId]

\* Faulty variant: the table chunk carries the zero-based index of its page.
TableChunkPageIndex(id, table, page_num) ==
    LET table_content == TableToText(table.data)
    IN  [chunk_id |-> id,
         content |-> table_content,
         page_number |-> page_num - 1,
         paragraph_numbers |-> <<>>,
         word_count |-> Len(PySplit(table_content)),
         char_count |-> Len(table_content),
         chunk_type |-> "table",
         table_id |-> table.table_id]

\* Faulty variant: every table chunk carries the id of the page's first table.
TableChunkFirstId(id, table, page_num) ==
    LET table_content == TableToText(table.data)
    IN  [chunk_id |-> id,
         content |-> table_content,
         page_number |-> page_num,
         paragraph_numbers |-> <<>>,
         word_count |-> Len(PySplit(table_content)),
         char_count |-> Len(table_content),
         chunk_type |-> "table",
         table_id |-> <<"table", page_num, 1>>]

\* The dict appended for a table.
TableChunk(id, table, page_num) ==
    LET table_content == TableToText(table.data)
    IN  [chunk_id |-> id,
         content |-> table_content,
         page_number |-> page_num,
         paragraph_numbers |-> <<>>,
         word_count |-> Len(PySplit(table_content)),
         char_count |-> Len(table_content),
         chunk_type |-> "table",
         table_id |-> table.table_id]

\* Faulty variant: the id is not advanced.
SameChunkId(id) == id

\* chunk_id += 1
NextChunkId(id) == id + 1

\* Faulty variant: the accumulator is carried into the next page.
CarriedChunk(cur) == cur

\* current_chunk = "" at the top of the page loop
PageStartChunk(cur) == <<>>

\* ------------------------------- create_semantic_chunks, one step at a time

CurPage == document_content.pages[page_i]

\* for page in document_content['pages']: the next page
NextPage ==
    /\ pc = "page"
    /\ page_i < Len(document_content.pages)
    /\ page_i' = page_i + 1
    /\ current_chunk' = PageStartChunk(current_chunk)
    /\ current_chunk_paras' = <<>>
    /\ para_i' = 0
    /\ table_i' = 0
    /\ pc' = "paragraphs"
    /\ UNCHANGED <<document_content, chunk_size, chunk_overlap, chunks, chunk_id>>
    /\ UNCHANGED <<embedVars, call_args, threads, graph>>

\* for paragraph in page['paragraphs']: the size check fires
CloseChunk ==
    /\ pc = "paragraphs"
    /\ para_i < Len(CurPage.paragraphs)
    /\ LET paragraph == CurPage.paragraphs[para_i + 1]
       IN  /\ ExceedsChunkSize(current_chunk, paragraph.text, chunk_size)
           /\ chunks' = Append(chunks,
                    ParagraphChunk(chunk_id, current_chunk, CurPage.page_number,
                                   current_chunk_paras))
           /\ chunk_id' = NextChunkId(chunk_id)
           /\ current_chunk' = NewChunkStart(current_chunk, paragraph.text, chunk_overlap)
           /\ current_chunk_paras' = NewChunkParas(current_chunk_paras,
                                                   paragraph.paragraph_id)
    /\ para_i' = para_i + 1
    /\ UNCHANGED <<document_content, chunk_size, chunk_overlap, page_i, table_i, pc>>
    /\ UNCHANGED <<embedVars, call_args, threads, graph>>

\* for paragraph in page['paragraphs']: the else branch
AddParagraph ==
    /\ pc = "paragraphs"
    /\ para_i < Len(CurPage.paragraphs)
    /\ LET paragraph == CurPage.paragraphs[para_i + 1]
       IN  /\ ~ExceedsChunkSize(current_chunk, paragraph.text, chunk_size)
           /\ current_chunk' = AppendParagraph(current_chunk, paragraph.text)
           /\ current_chunk_paras' = Append(current_chunk_paras, paragraph.paragraph_id)
    /\ para_i' = para_i + 1
    /\ UNCHANGED <<document_content, chunk_size, chunk_overlap, chunks, chunk_id,
                   page_i, table_i, pc>>
    /\ UNCHANGED <<embedVars, call_args, threads, graph>>

\* "Add remaining chunk": after the page's last paragraph
RemainingChunk ==
    /\ pc = "paragraphs"
    /\ para_i = Len(CurPage.paragraphs)
    /\ IF PyStrip(current_chunk) # <<>>
       THEN /\ chunks' = Append(chunks,
                    ParagraphChunk(chunk_id, current_chunk, CurPage.page_number,
                                   current_chunk_paras))
            /\ chunk_id' = NextChunkId(chunk_id)
       ELSE UNCHANGED <<chunks, chunk_id>>
    /\ pc' = "tables"
    /\ UNCHANGED <<document_content, chunk_size, chunk_overlap, page_i, para_i,
                   table_i, current_chunk, current_chunk_paras>>
    /\ UNCHANGED <<embedVars, call_args, threads, graph>>

\* for table in page['tables']
ProcessTable ==
    /\ pc = "tables"
    /\ table_i < Len(CurPage.tables)
    /\ chunks' = Append(chunks,
            TableChunk(chunk_id, CurPage.tables[table_i + 1], CurPage.page_number))
    /\ chunk_id' = NextChunkId(chunk_id)
    /\ table_i' = table_i + 1
    /\ UNCHANGED <<document_content, chunk_size, chunk_overlap, page_i, para_i,
                   current_chunk, current_chunk_paras, pc>>
    /\ UNCHANGED <<embedVars, call_args, threads, graph>>

\* the page's tables are done: back to the page loop
EndPage ==
    /\ pc = "tables"
    /\ table_i = Len(CurPage.tables)
    /\ pc' = "page"
    /\ UNCHANGED <<document_content, chunk_size, chunk_overlap, chunks, chunk_id,
                   page_i, para_i, table_i, current_chunk, current_chunk_paras>>
    /\ UNCHANGED <<embedVars, call_args, threads, graph>>

\* return chunks
ReturnChunks ==
    /\ pc = "page"
    /\ page_i = Len(document_content.pages)
    /\ pc' = "return"
    /\ UNCHANGED <<document_content, chunk_size, chunk_overlap, chunks, chunk_id,
                   page_i, para_i, table_i, current_chunk, current_chunk_paras>>
    /\ UNCHANGED <<embedVars, call_args, threads, graph>>

\* ------------------------------------------- EmbeddingManager: the vectorizer

\* TfidfVectorizer(max_df=0.95, min_df=2): max_df is a share of the documents
\* (a float, in percent here), min_df a number of documents (an int).
MaxDfPercent == 95
MinDf == 2

\* A text is the set of terms the analyzer finds in it (after tokenising,
\* stop-word removal and n-gram expansion); TermOrder is the sorted vocabulary
\* order sklearn gives the columns.
TermOrder == <<"x", "y">>
Terms == { TermOrder[i] : i \in 1..Len(TermOrder) }
Texts == { {}, {"x"}, {"x", "y"} }

\* TfidfVectorizer(...) as constructed: no vocabulary_ yet.
UnfitVectorizer == [is_fit |-> FALSE, vocabulary |-> {}]

\* The number of documents of the corpus a term occurs in.
DocFreq(term, texts) == Cardinality({ i \in 1..Len(texts) : term \in texts[i] })

\* One row of the document-term matrix: a column per vocabulary term, in
\* sorted order; the tf-idf weight of a term is modelled by its presence.
Vector(vz, text) ==
    LET cols == SelectSeq(TermOrder, LAMBDA t : t \in vz.vocabulary)
    IN  [j \in 1..Len(cols) |-> IF cols[j] \in text THEN 1 ELSE 0]

\* vectorizer.transform(texts): NotFittedError on a vectorizer without
\* vocabulary_, ValueError on no samples.
Transform(vz, texts) ==
    IF ~vz.is_fit \/ texts = <<>>
    THEN [raised |-> TRUE, value |-> <<>>]
    ELSE [raised |-> FALSE, value |-> [i \in 1..Len(texts) |-> Vector(vz, texts[i])]]

\* vectorizer.fit_transform(texts): ValueError when the corpus has no term
\* ("empty vocabulary"), when max_df * n_docs < min_df, and when no term is in
\* min_df..max_df * n_docs documents ("After pruning, no terms remain"); the
\* vectorizer is left without vocabulary_ then. max_features=1000 never binds
\* on Terms.
FitTransform(texts) ==
    LET n == Len(texts)
        all == UNION { texts[i] : i \in 1..n }
        kept == { t \in all : /\ DocFreq(t, texts) >= MinDf
                              /\ DocFreq(t, texts) * 100 <= MaxDfPercent * n }
        vz == [is_fit |-> TRUE, vocabulary |-> kept]
    IN  IF all = {} \/ MaxDfPercent * n < MinDf * 100 \/ kept = {}
        THEN [raised |-> TRUE, vectorizer |-> UnfitVectorizer, value |-> <<>>]
        ELSE [raised |-> FALSE, vectorizer |-> vz,
              value |-> [i \in 1..n |-> Vector(vz, texts[i])]]

\* generate_embeddings(texts) on an engine holding vz with self.fitted = fit:
\* what it raises or returns and the engine it leaves.
GenerateEmbeddingsCall(vz, fit, texts) ==
    IF ~fit
    THEN LET r == FitTransform(texts)
         IN  IF r.raised
             THEN [raised |-> TRUE, vectorizer |-> vz, fitted |-> fit, value |-> <<>>]
             ELSE [raised |-> FALSE, vectorizer |-> r.vectorizer, fitted |-> TRUE,
                   value |-> r.value]
    ELSE LET r == Transform(vz, texts)
         IN  [raised |-> r.raised, vectorizer |-> vz, fitted |-> fit, value |-> r.value]

\* generate_single_embedding(text): the same on [text], returning row 0.
GenerateSingleEmbeddingCall(vz, fit, text) ==
    LET r == GenerateEmbeddingsCall(vz, fit, <<text>>)
    IN  [r EXCEPT !.value = IF r.raised THEN <<>> ELSE r.value[1]]

\* ------------------------------------------------------ cosine similarity

\* Fixed-point scale of a similarity value.
SimScale == 10000

RECURSIVE SumSeq(_)
SumSeq(s) == IF s = <<>> THEN 0 ELSE Head(s) + SumSeq(Tail(s))

\* sum(a * b for a, b in zip(vec1, vec2)): zip stops at the shorter vector.
Dot(a, b) == SumSeq([i \in 1..Min(Len(a), Len(b)) |-> a[i] * b[i]])

NormSq(a) == SumSeq([i \in 1..Len(a) |-> a[i] * a[i]])

\* dot / (|a| * |b|) of vectors without negative entries, kept as its square
\* in fixed point (the order of the values is that of the cosines); 0 when a
\* magnitude is 0.
Cosine(a, b) ==
    IF NormSq(a) = 0 \/ NormSq(b) = 0 THEN 0
    ELSE (Dot(a, b) * Dot(a, b) * SimScale) \div (NormSq(a) * NormSq(b))

\* sklearn's cosine_similarity([embedding1], [embedding2]) raises ValueError
\* for rows of different width (and for rows of no features).
SklearnCosineRaises(embedding1, embedding2) ==
    Len(embedding1) # Len(embedding2) \/ Len(embedding1) = 0

\* EmbeddingManager.calculate_similarity: the except branch returns 0.0.
CalculateSimilarityCall(embedding1, embedding2) ==
    IF SklearnCosineRaises(embedding1, embedding2)
    THEN [raised |-> FALSE, value |-> 0]
    ELSE [raised |-> FALSE, value |-> Cosine(embedding1, embedding2)]

\* Faulty variant: no magnitude check, so a zero magnitude divides by zero.
CosineSimilarityUnchecked(vec1, vec2) ==
    IF NormSq(vec1) = 0 \/ NormSq(vec2) = 0
    THEN [raised |-> TRUE, value |-> 0]
    ELSE [raised |-> FALSE,
          value |-> (Dot(vec1, vec2) * Dot(vec1, vec2) * SimScale)
                        \div (NormSq(vec1) * NormSq(vec2))]

\* LLMProcessor._cosine_similarity
CosineSimilarityCall(vec1, vec2) ==
    IF NormSq(vec1) = 0 \/ NormSq(vec2) = 0
    THEN [raised |-> FALSE, value |-> 0]
    ELSE [raised |-> FALSE,
          value |-> (Dot(vec1, vec2) * Dot(vec1, vec2) * SimScale)
                        \div (NormSq(vec1) * NormSq(vec2))]

\* Faulty variant: an entry goes before the entries of equal score.
InsertDescBeforeEqual(sorted, e) ==
    LET k == Cardinality({ i \in 1..Len(sorted) :
                             sorted[i].similarity_score > e.similarity_score })
    IN  SubSeq(sorted, 1, k) \o <<e>> \o SubSeq(sorted, k + 1, Len(sorted))

\* list.sort(key=similarity_score, reverse=True): stable, equal scores keep
\* their order.
InsertDesc(sorted, e) ==
    LET k == Cardinality({ i \in 1..Len(sorted) :
                             sorted[i].similarity_score >= e.similarity_score })
    IN  SubSeq(sorted, 1, k) \o <<e>> \o SubSeq(sorted, k + 1, Len(sorted))

RECURSIVE SortDesc(_)
SortDesc(s) ==
    IF s = <<>> THEN <<>>
    ELSE InsertDesc(SortDesc(SubSeq(s, 1, Len(s) - 1)), s[Len(s)])

\* seq[:k] for k >= 0
FirstSlice(seq, k) == SubSeq(seq, 1, Min(k, Len(seq)))

\* ------------------------------------------- EmbeddingManager: operations

\* The corpora given to generate_embeddings: of one and of two texts (too
\* few for min_df=2 under max_df=0.95), of three texts with no term in two of
\* them, and of three texts that fit to the vocabularies {x}, {y} and {x, y}.
Corpora ==
    { << {"x"} >>,
      << {"x"}, {"x"} >>,
      << {"x"}, {}, {} >>,
      << {"x"}, {"x"}, {} >>,
      << {"x", "y"}, {"x", "y"}, {"x"} >>,
      << {"x", "y"}, {"x", "y"}, {} >> }

\* The chunk / document records given to semantic_search and
\* batch_process_chunks: chunk ids 1..n and a content each; the empty list too.
ChunkLists ==
    { [i \in 1..Len(ts) |-> [chunk_id |-> i, content |-> ts[i]]] :
        ts \in Corpora \cup { <<>> } }

\* top_k of semantic_search: one, and the default.
DefaultTopK == 5
TopKs == {1, DefaultTopK}

\* Length of an embedding vector handed to the similarity routines.
MaxDim == 2

\* Embedding vectors handed to the similarity routines.
Embeddings == UNION { [1..d -> {0, 1, 2}] : d \in 1..MaxDim }

\* Arrays handed to save_embeddings.
EmbeddingArrays == { <<>>, << <<1>> >> }

Paths == {"embeddings.pkl"}

\* What a path holds: no file, bytes pickle cannot load, or a pickled dict
\* with or without its 'vectorizer' and 'embeddings' entries.
File(kind, has_vz, vz, has_emb, emb) ==
    [kind |-> kind, has_vectorizer |-> has_vz, vectorizer |-> vz,
     has_embeddings |-> has_emb, embeddings |-> emb]

MissingFile == File("missing", FALSE, UnfitVectorizer, FALSE, <<>>)
CorruptFile == File("corrupt", FALSE, UnfitVectorizer, FALSE, <<>>)

\* A vectorizer fit by an earlier process.
EarlierVectorizer == [is_fit |-> TRUE, vocabulary |-> {"y"}]

\* What the file system may hold when the engine is constructed.
InitialFiles ==
    { MissingFile, CorruptFile,
      File("dict", TRUE, EarlierVectorizer, TRUE, << <<1>> >>),
      File("dict", TRUE, EarlierVectorizer, TRUE, <<>>),
      File("dict", TRUE, EarlierVectorizer, FALSE, <<>>),
      File("dict", FALSE, UnfitVectorizer, TRUE, << <<1>> >>) }

Result(op, raised, value) == [op |-> op, raised |-> raised, value |-> value]

\* generate_embeddings(texts)
GenerateEmbeddings(texts) ==
    \E r \in { GenerateEmbeddingsCall(vectorizer, fitted, texts) } :
        /\ vectorizer' = r.vectorizer
        /\ fitted' = r.fitted
        /\ ret' = Result("generate_embeddings", r.raised, r.value)
        /\ UNCHANGED files
        /\ UNCHANGED <<chunkerVars, call_args, threads, graph>>

\* generate_single_embedding(text)
GenerateSingleEmbedding(text) ==
    \E r \in { GenerateSingleEmbeddingCall(vectorizer, fitted, text) } :
        /\ vectorizer' = r.vectorizer
        /\ fitted' = r.fitted
        /\ ret' = Result("generate_single_embedding", r.raised, r.value)
        /\ UNCHANGED files
        /\ UNCHANGED <<chunkerVars, call_args, threads, graph>>

\* calculate_similarity(embedding1, embedding2) on the vectors of call_args
CalculateSimilarity ==
    LET r == CalculateSimilarityCall(call_args[1], call_args[2])
    IN  /\ ret' = Result("calculate_similarity", r.raised, r.value)
        /\ UNCHANGED <<vectorizer, fitted, files>>
        /\ UNCHANGED <<chunkerVars, call_args, threads, graph>>

\* LLMProcessor._cosine_similarity(vec1, vec2) on the vectors of call_args
CosineSimilarity ==
    LET r == CosineSimilarityCall(call_args[1], call_args[2])
    IN  /\ ret' = Result("_cosine_similarity", r.raised, r.value)
        /\ UNCHANGED <<vectorizer, fitted, files>>
        /\ UNCHANGED <<chunkerVars, call_args, threads, graph>>

\* result = documents[idx].copy(); result['similarity_score'] = similarity:
\* the result.
ScoredCopy(document, similarity) ==
    [f \in DOMAIN document \cup {"similarity_score"} |->
        IF f = "similarity_score" THEN similarity ELSE document[f]]

\* Faulty variant: result = documents[idx], without the copy.
ScoredInPlace(document, similarity) == ScoredCopy(document, similarity)

\* The caller's document after those two statements.
DocumentAfterScoring(document, similarity) == document

\* The similarity of every document to the query, in document order.
Similarities(query_embedding, doc_embeddings) ==
    [i \in 1..Len(doc_embeddings) |->
        CalculateSimilarityCall(query_embedding, doc_embeddings[i]).value]

\* The ranking of semantic_search: a scored copy of every document, sorted,
\* cut to top_k.
RankDocuments(query_embedding, doc_embeddings, documents, top_k) ==
    LET scores == Similarities(query_embedding, doc_embeddings)
        similarities == [i \in 1..Len(documents) |-> ScoredCopy(documents[i], scores[i])]
    IN  FirstSlice(SortDesc(similarities), top_k)

\* semantic_search(query, documents, top_k) on an engine holding vz with
\* self.fitted = fit: the engine it leaves, what it returns ([] when anything
\* raised inside) and the caller's documents afterwards.
SemanticSearchCall(vz, fit, query, documents, top_k) ==
    LET g == GenerateEmbeddingsCall(vz, fit,
                 [i \in 1..Len(documents) |-> documents[i].content])
        q == GenerateSingleEmbeddingCall(g.vectorizer, g.fitted, query)
        failed == g.raised \/ q.raised
    IN  [vectorizer |-> IF g.raised THEN g.vectorizer ELSE q.vectorizer,
         fitted |-> IF g.raised THEN g.fitted ELSE q.fitted,
         value |-> IF failed THEN <<>>
                   ELSE RankDocuments(q.value, g.value, documents, top_k),
         documents |-> IF failed THEN documents
                       ELSE LET scores == Similarities(q.value, g.value)
                            IN  [i \in 1..Len(documents) |->
                                   DocumentAfterScoring(documents[i], scores[i])]]

\* semantic_search(query, documents, top_k): any exception inside gives [].
SemanticSearch(query, documents, top_k) ==
    \E r \in { SemanticSearchCall(vectorizer, fitted, query, documents, top_k) } :
        /\ vectorizer' = r.vectorizer
        /\ fitted' = r.fitted
        /\ ret' = Result("semantic_search", FALSE, r.value)
        /\ UNCHANGED files
        /\ UNCHANGED <<chunkerVars, call_args, threads, graph>>

\* find_similar_chunks(query_embedding, chunk_embeddings, top_k): the index
\* (from 0) and the score of every chunk embedding, sorted, cut to top_k.
FindSimilarChunksCall(query_embedding, chunk_embeddings, top_k) ==
    LET scores == Similarities(query_embedding, chunk_embeddings)
        similarities == [i \in 1..Len(chunk_embeddings) |->
                           [chunk_index |-> i - 1, similarity_score |-> scores[i]]]
    IN  FirstSlice(SortDesc(similarities), top_k)

\* batch_process_chunks(chunks): the chunks with an 'embedding' each, or, on
\* an exception, the chunks as they are.
BatchProcessChunks(chunk_list) ==
    \E g \in { GenerateEmbeddingsCall(vectorizer, fitted,
                    [i \in 1..Len(chunk_list) |-> chunk_list[i].content]) } :
        /\ vectorizer' = g.vectorizer
        /\ fitted' = g.fitted
        /\ ret' = Result("batch_process_chunks", FALSE,
                         IF g.raised THEN chunk_list
                         ELSE [i \in 1..Len(chunk_list) |->
                                 [chunk_id |-> chunk_list[i].chunk_id,
                                  content |-> chunk_list[i].content,
                                  embedding |-> g.value[i]]])
        /\ UNCHANGED files
        /\ UNCHANGED <<chunkerVars, call_args, threads, graph>>

\* save_embeddings(embeddings, file_path): pickles the array and the
\* vectorizer held now; an OSError on open is logged and nothing is written.
SaveEmbeddings(embeddings, file_path) ==
    /\ \/ files' = [files EXCEPT ![file_path] =
                      File("dict", TRUE, vectorizer, TRUE, embeddings)]
       \/ UNCHANGED files
    /\ ret' = Result("save_embeddings", FALSE, <<>>)
    /\ UNCHANGED <<vectorizer, fitted>>
    /\ UNCHANGED <<chunkerVars, call_args, threads, graph>>

\* load_embeddings(file_path): the stored array; an empty array when the file
\* is missing or anything raises (pickle.load, data['vectorizer'],
\* data['embeddings']).
LoadEmbeddingsCall(vz, fit, data) ==
    LET assigned == data.kind = "dict" /\ data.has_vectorizer
    IN  [vectorizer |-> IF assigned THEN data.vectorizer ELSE vz,
         fitted |-> IF assigned THEN TRUE ELSE fit,
         value |-> IF assigned /\ data.has_embeddings THEN data.embeddings ELSE <<>>]

\* load_embeddings(file_path) on the engine
LoadEmbeddings(file_path) ==
    \E r \in { LoadEmbeddingsCall(vectorizer, fitted, files[file_path]) } :
        /\ vectorizer' = r.vectorizer
        /\ fitted' = r.fitted
        /\ ret' = Result("load_embeddings", FALSE, r.value)
        /\ UNCHANGED files
        /\ UNCHANGED <<chunkerVars, call_args, threads, graph>>

\* ---------------------------------------------------------- specifications

DefaultChunkSize == 1000

\* DocumentProcessor with no call in progress.
\* A GraphManager after __init__: self.driver is set when connect() reached
\* the server, None (mock mode) otherwise. The database behind it: the
\* constraints declared, the Document nodes in the order of their creation,
\* the Chunk nodes (each with the Document that CONTAINS it) and the Upload
\* nodes.
GraphManagerInit(connected) ==
    [driver |-> connected,
     closed |-> FALSE,
     constraints |-> {},
     documents |-> <<>>,
     chunk_nodes |-> {},
     uploads |-> <<>>]

\* No database in reach.
NoGraphManager == GraphManagerInit(FALSE)

ChunkerIdle ==
    /\ document_content = [pages |-> <<>>]
    /\ chunk_size = DefaultChunkSize
    /\ chunk_overlap = DefaultChunkOverlap
    /\ chunks = <<>>
    /\ chunk_id = 1
    /\ page_i = 0
    /\ para_i = 0
    /\ table_i = 0
    /\ current_chunk = <<>>
    /\ current_chunk_paras = <<>>
    /\ pc = "idle"

\* EmbeddingManager() as __init__ leaves it.
EmbeddingManagerInit ==
    /\ vectorizer = UnfitVectorizer
    /\ fitted = FALSE
    /\ ret = Result("__init__", FALSE, <<>>)

\* create_semantic_chunks called on an extraction result, with a configured
\* chunk_size and chunk_overlap.
Init ==
    /\ document_content \in Documents
    /\ chunk_size \in ChunkSizes
    /\ chunk_overlap \in ChunkOverlaps
    /\ chunks = <<>>
    /\ chunk_id = 1
    /\ page_i = 0
    /\ para_i = 0
    /\ table_i = 0
    /\ current_chunk = <<>>
    /\ current_chunk_paras = <<>>
    /\ pc = "page"
    /\ EmbeddingManagerInit
    /\ files = [p \in Paths |-> MissingFile]
    /\ call_args = <<>>
    /\ threads = <<>>
    /\ graph = NoGraphManager

Next ==
    \/ NextPage
    \/ CloseChunk
    \/ AddParagraph
    \/ RemainingChunk
    \/ ProcessTable
    \/ EndPage
    \/ ReturnChunks

\* The chunker: one run of create_semantic_chunks.
Spec == Init /\ [][Next]_vars

EmbedInit ==
    /\ ChunkerIdle
    /\ EmbeddingManagerInit
    /\ files \in [Paths -> InitialFiles]
    /\ call_args = <<>>
    /\ threads = <<>>
    /\ graph = NoGraphManager

EmbedNext ==
    \/ \E texts \in Corpora : GenerateEmbeddings(texts)
    \/ \E text \in Texts : GenerateSingleEmbedding(text)
    \/ \E query \in Texts, documents \in ChunkLists, top_k \in TopKs :
          SemanticSearch(query, documents, top_k)
    \/ \E chunk_list \in ChunkLists : BatchProcessChunks(chunk_list)
    \/ \E embeddings \in EmbeddingArrays, file_path \in Paths :
          SaveEmbeddings(embeddings, file_path)
    \/ \E file_path \in Paths : LoadEmbeddings(file_path)

\* The embedding engine: any sequence of calls on one EmbeddingManager.
EmbedSpec == EmbedInit /\ [][EmbedNext]_vars

SimInit ==
    /\ ChunkerIdle
    /\ EmbeddingManagerInit
    /\ files = [p \in Paths |-> MissingFile]
    /\ call_args \in Embeddings \X Embeddings
    /\ threads = <<>>
    /\ graph = NoGraphManager

SimNext ==
    \/ CalculateSimilarity
    \/ CosineSimilarity

\* The similarity routines, each called on a pair of vectors.
SimSpec == SimInit /\ [][SimNext]_vars

\* ------------------------------------------------- searches, one at a time

\* {**chunks[chunk_idx], 'similarity_score': similarity, 'rank': i + 1}
RankedCopy(chunk, similarity, rank) ==
    [f \in DOMAIN chunk \cup {"similarity_score", "rank"} |->
        IF f = "similarity_score" THEN similarity
        ELSE IF f = "rank" THEN rank ELSE chunk[f]]

\* LLMProcessor.semantic_search once embed_query has given query_embedding
\* or raised: what it returns ([] when anything raised inside, as
\* chunks[chunk_idx] does for an embedding without a chunk) and the caller's
\* chunks afterwards.
LLMSemanticSearchCall(embed_raises, query_embedding, chunk_embeddings, chunk_list, top_k) ==
    LET similarities ==
            [i \in 1..Len(chunk_embeddings) |->
               [chunk_index |-> i - 1,
                similarity_score |->
                    CosineSimilarityCall(query_embedding, chunk_embeddings[i]).value]]
        top == FirstSlice(SortDesc(similarities), top_k)
        failed == \/ embed_raises
                  \/ \E j \in 1..Len(top) : top[j].chunk_index + 1 > Len(chunk_list)
    IN  [value |-> IF failed THEN <<>>
                   ELSE [j \in 1..Len(top) |->
                           RankedCopy(chunk_list[top[j].chunk_index + 1],
                                      top[j].similarity_score, j)],
         chunks |-> [i \in 1..Len(chunk_list) |->
                       IF \E j \in 1..Len(top) : top[j].chunk_index + 1 = i
                       THEN DocumentAfterScoring(chunk_list[i], similarities[i].similarity_score)
                       ELSE chunk_list[i]]]

\* Candidates of one ranking.
MaxCandidates == 3

\* top_k of a ranking: none, fewer than, as many as and more than the
\* candidates.
RankTopKs == {0, 1, 2, DefaultTopK}

\* The vectors a ranking compares.
RankVectors == { <<0, 0>>, <<1, 0>>, <<0, 1>>, <<1, 1>> }

\* Engines as earlier calls leave them: never fit, and fit on both terms.
Engines ==
    { [vectorizer |-> UnfitVectorizer, fitted |-> FALSE],
      [vectorizer |-> [is_fit |-> TRUE, vocabulary |-> Terms], fitted |-> TRUE] }

\* The arguments of one semantic_search or find_similar_chunks call.
SearchArgs ==
    { [op |-> "semantic_search", query |-> q, documents |-> d, top_k |-> k] :
        q \in Texts, d \in ChunkLists, k \in RankTopKs }
    \cup
    { [op |-> "find_similar_chunks", query_embedding |-> q, chunk_embeddings |-> c,
       top_k |-> k] :
        q \in RankVectors,
        c \in UNION { [1..n -> RankVectors] : n \in 0..MaxCandidates },
        k \in RankTopKs }
    \cup
    { [op |-> "llm_semantic_search", embed_raises |-> x, query_embedding |-> <<1, 0>>,
       chunk_embeddings |-> c, chunks |-> d, top_k |-> k] :
        x \in BOOLEAN,
        c \in UNION { [1..n -> RankVectors] : n \in 0..MaxCandidates },
        d \in ChunkLists, k \in {1, DefaultTopK} }

\* semantic_search on the caller's documents
SearchDocuments ==
    /\ call_args.op = "semantic_search"
    /\ ret.op = "__init__"
    /\ \E r \in { SemanticSearchCall(vectorizer, fitted, call_args.query,
                                      call_args.documents, call_args.top_k) } :
          /\ vectorizer' = r.vectorizer
          /\ fitted' = r.fitted
          /\ ret' = Result("semantic_search", FALSE, r.value)
          /\ call_args' = [call_args EXCEPT !.documents = r.documents]
    /\ UNCHANGED files
    /\ UNCHANGED <<chunkerVars, threads, graph>>

\* find_similar_chunks on the caller's embeddings
FindSimilarChunks ==
    /\ call_args.op = "find_similar_chunks"
    /\ ret.op = "__init__"
    /\ ret' = Result("find_similar_chunks", FALSE,
                     FindSimilarChunksCall(call_args.query_embedding,
                                           call_args.chunk_embeddings,
                                           call_args.top_k))
    /\ UNCHANGED <<vectorizer, fitted, files>>
    /\ UNCHANGED <<chunkerVars, call_args, threads, graph>>

\* LLMProcessor.semantic_search on the caller's chunks
LLMSemanticSearch ==
    /\ call_args.op = "llm_semantic_search"
    /\ ret.op = "__init__"
    /\ \E r \in { LLMSemanticSearchCall(call_args.embed_raises, call_args.query_embedding,
                                         call_args.chunk_embeddings, call_args.chunks,
                                         call_args.top_k) } :
          /\ ret' = Result("llm_semantic_search", FALSE, r.value)
          /\ call_args' = [call_args EXCEPT !.chunks = r.chunks]
    /\ UNCHANGED <<vectorizer, fitted, files>>
    /\ UNCHANGED <<chunkerVars, threads, graph>>

SearchInit ==
    /\ ChunkerIdle
    /\ \E e \in Engines : vectorizer = e.vectorizer /\ fitted = e.fitted
    /\ ret = Result("__init__", FALSE, <<>>)
    /\ files = [p \in Paths |-> MissingFile]
    /\ call_args \in SearchArgs
    /\ threads = <<>>
    /\ graph = NoGraphManager

SearchNext ==
    \/ SearchDocuments
    \/ FindSimilarChunks
    \/ LLMSemanticSearch

\* One search on an engine, with the caller's arguments kept in view.
SearchSpec == SearchInit /\ [][SearchNext]_vars

\* ------------------------------ two callers sharing one EmbeddingManager

\* The callers: two threads of one process, each in generate_embeddings.
ThreadIds == {1, 2}

\* A thread entering generate_embeddings(texts).
ThreadStart(texts) ==
    [texts |-> texts, pc |-> "start", saw_fitted |-> FALSE,
     own |-> UnfitVectorizer, raised |-> FALSE, value |-> <<>>]

\* Faulty variant: the fit branch looks at self.fitted again when it fits.
TakesFitBranchRechecked(saw_fitted, fitted_now) == ~fitted_now

\* if not self.fitted: the branch is taken on the value the thread read.
TakesFitBranch(saw_fitted, fitted_now) == ~saw_fitted

\* if not self.fitted: the thread reads the flag
ReadFitted(t) ==
    /\ threads[t].pc = "start"
    /\ threads' = [threads EXCEPT ![t].saw_fitted = fitted, ![t].pc = "branch"]
    /\ UNCHANGED <<vectorizer, fitted, files, ret>>
    /\ UNCHANGED <<chunkerVars, call_args, graph>>

\* self.vectorizer.fit_transform(texts), first half: the vocabulary of the
\* thread's own texts is learnt and stored in the shared vectorizer and the
\* counts are taken; or self.vectorizer.transform(texts) with whatever the
\* shared vectorizer holds now. An exception is logged and re-raised.
FitOrTransform(t) ==
    /\ threads[t].pc = "branch"
    /\ IF TakesFitBranch(threads[t].saw_fitted, fitted)
       THEN \E r \in { FitTransform(threads[t].texts) } :
              IF r.raised
              THEN /\ threads' = [threads EXCEPT ![t].raised = TRUE, ![t].pc = "return"]
                   /\ UNCHANGED vectorizer
              ELSE /\ threads' = [threads EXCEPT ![t].own = r.vectorizer,
                                                 ![t].value = r.value,
                                                 ![t].pc = "weigh"]
                   /\ vectorizer' = r.vectorizer
       ELSE \E r \in { Transform(vectorizer, threads[t].texts) } :
              /\ threads' = [threads EXCEPT ![t].raised = r.raised,
                                            ![t].value = r.value,
                                            ![t].pc = "return"]
              /\ UNCHANGED vectorizer
    /\ UNCHANGED <<fitted, files, ret>>
    /\ UNCHANGED <<chunkerVars, call_args, graph>>

\* fit_transform, second half: the counts are weighted with the idf vector
\* the shared vectorizer holds. When another thread's fit has replaced it by
\* one of another length the product either raises or goes through, by
\* library version; the columns are those of the thread's own vocabulary.
WeighCounts(t) ==
    /\ threads[t].pc = "weigh"
    /\ \/ threads' = [threads EXCEPT ![t].pc = "set"]
       \/ /\ Cardinality(vectorizer.vocabulary)
               # Cardinality(threads[t].own.vocabulary)
          /\ threads' = [threads EXCEPT ![t].raised = TRUE, ![t].value = <<>>,
                                        ![t].pc = "return"]
    /\ UNCHANGED <<vectorizer, fitted, files, ret>>
    /\ UNCHANGED <<chunkerVars, call_args, graph>>

\* self.fitted = True
SetFitted(t) ==
    /\ threads[t].pc = "set"
    /\ fitted' = TRUE
    /\ threads' = [threads EXCEPT ![t].pc = "return"]
    /\ UNCHANGED <<vectorizer, files, ret>>
    /\ UNCHANGED <<chunkerVars, call_args, graph>>

\* return embeddings.toarray(), or the exception reaches the caller
ReturnEmbeddings(t) ==
    /\ threads[t].pc = "return"
    /\ threads' = [threads EXCEPT ![t].pc = "done"]
    /\ ret' = Result("generate_embeddings", threads[t].raised, threads[t].value)
    /\ UNCHANGED <<vectorizer, fitted, files>>
    /\ UNCHANGED <<chunkerVars, call_args, graph>>

ThreadInit ==
    /\ ChunkerIdle
    /\ EmbeddingManagerInit
    /\ files = [p \in Paths |-> MissingFile]
    /\ call_args = <<>>
    /\ threads \in [ThreadIds -> { ThreadStart(texts) : texts \in Corpora }]
    /\ graph = NoGraphManager

ThreadNext ==
    \E t \in ThreadIds :
        \/ ReadFitted(t)
        \/ FitOrTransform(t)
        \/ WeighCounts(t)
        \/ SetFitted(t)
        \/ ReturnEmbeddings(t)

\* Two threads calling generate_embeddings on one fresh EmbeddingManager,
\* interleaved at every read and write of the shared fields.
ThreadSpec == ThreadInit /\ [][ThreadNext]_vars

\* ------------------------------------------------ paragraphs of a page text

\* Characters of a page text.
MaxTextLen == 5

\* A letter, a bullet mark and the two whitespace characters.
TextAlphabet == {"a", "-", " ", "\n"}

\* page.extract_text() or "": any text.
PageTexts == UNION { [1..n -> TextAlphabet] : n \in 0..MaxTextLen }

\* The first match of \n\s*\n in text, as <<first, last>> positions, or
\* <<0, 0>>: the leftmost "\n" from which whitespace leads to another "\n",
\* and, \s* being greedy, the last "\n" that whitespace leads to.
FirstBlankLine(text) ==
    LET Ends(i) == { j \in (i + 1)..Len(text) :
                       /\ text[j] = "\n"
                       /\ \A k \in (i + 1)..j : IsSpace(text[k]) }
        starts == { i \in 1..Len(text) : text[i] = "\n" /\ Ends(i) # {} }
    IN  IF starts = {} THEN <<0, 0>>
        ELSE LET i == CHOOSE x \in starts : \A y \in starts : x <= y
             IN  <<i, CHOOSE x \in Ends(i) : \A y \in Ends(i) : y <= x>>

RECURSIVE ReSplit(_)
\* re.split(r'\n\s*\n', text): the pieces between the matches, empty pieces
\* included.
ReSplit(text) ==
    LET m == FirstBlankLine(text)
    IN  IF m = <<0, 0>> THEN <<text>>
        ELSE <<SubSeq(text, 1, m[1] - 1)>> \o ReSplit(SubSeq(text, m[2] + 1, Len(text)))

BulletChars == {"-", "*"}
Digits == {"0", "1", "2", "3", "4", "5", "6", "7", "8", "9"}

\* re.match(r'^\s*[-...*]\s+', stripped)
IsBullet(stripped) ==
    Len(stripped) >= 2 /\ stripped[1] \in BulletChars /\ IsSpace(stripped[2])

\* re.match(r'^\s*\d+\.\s+', stripped)
IsNumbered(stripped) ==
    \E k \in 1..Len(stripped) :
        /\ \A i \in 1..k : stripped[i] \in Digits
        /\ Len(stripped) >= k + 2
        /\ stripped[k + 1] = "."
        /\ IsSpace(stripped[k + 2])

\* The record appended for raw_paragraphs[idx] (idx from 0).
ParagraphRecord(idx, paragraph) ==
    [paragraph_id |-> idx + 1,
     text |-> PyStrip(paragraph),
     is_bullet |-> IsBullet(PyStrip(paragraph)),
     is_numbered |-> IsNumbered(PyStrip(paragraph)),
     word_count |-> Len(PySplit(paragraph))]

RECURSIVE KeptParagraphs(_, _)
\* for idx, paragraph in enumerate(raw_paragraphs): if paragraph.strip(): ...
KeptParagraphs(raw_paragraphs, idx) ==
    IF idx = Len(raw_paragraphs) THEN <<>>
    ELSE (IF PyStrip(raw_paragraphs[idx + 1]) # <<>>
          THEN <<ParagraphRecord(idx, raw_paragraphs[idx + 1])>>
          ELSE <<>>)
         \o KeptParagraphs(raw_paragraphs, idx + 1)

\* _extract_paragraphs(text)
ExtractParagraphsCall(text) == KeptParagraphs(ReSplit(text), 0)

\* _extract_paragraphs on the text of call_args
ExtractParagraphs ==
    /\ call_args.op = "_extract_paragraphs"
    /\ ret.op = "__init__"
    /\ ret' = Result("_extract_paragraphs", FALSE, ExtractParagraphsCall(call_args.text))
    /\ UNCHANGED <<vectorizer, fitted, files>>
    /\ UNCHANGED <<chunkerVars, call_args, threads, graph>>

ParaInit ==
    /\ ChunkerIdle
    /\ EmbeddingManagerInit
    /\ files = [p \in Paths |-> MissingFile]
    /\ call_args \in { [op |-> "_extract_paragraphs", text |-> t] : t \in PageTexts }
    /\ threads = <<>>
    /\ graph = NoGraphManager

ParaNext == ExtractParagraphs

\* _extract_paragraphs called on a page text.
ParaSpec == ParaInit /\ [][ParaNext]_vars

\* ------------------------------------------------------- the cost estimate

\* Chunks of one cost estimate.
MaxChunks == 3

\* Word counts of the chunks.
WordCounts == {1, 2, 5, 28}

\* The chunks handed to calculate_processing_cost: the empty list too.
CostChunks ==
    UNION { { [i \in 1..n |-> [chunk_id |-> i, word_count |-> ws[i]]] :
                ws \in [1..n -> WordCounts] } : n \in 0..MaxChunks }

\* A Python float (IEEE 754 binary64) near a multiple of one tenth is held
\* exactly as [t, n], meaning t/10 + n * U with U = 2^-52 / 10. The literal
\* 1.3 is the double 13/10 + 2 * U.
RECURSIVE Pow2(_)
Pow2(e) == IF e = 0 THEN 1 ELSE 2 * Pow2(e - 1)

RECURSIVE ExponentFrom(_, _)
ExponentFrom(x, e) ==
    IF x.t < 10 * Pow2(e + 1) \/ (x.t = 10 * Pow2(e + 1) /\ x.n < 0)
    THEN e ELSE ExponentFrom(x, e + 1)

\* The binary exponent e of a value of at least 1: 2^e <= x < 2^(e+1).
Exponent(x) == ExponentFrom(x, 0)

\* 2^j mod 20 for j >= 2.
TwoPowMod20(j) == <<4, 8, 16, 12>>[((j - 2) % 4) + 1]

\* The double nearest to the real number x (round to nearest, ties to
\* even): the doubles of exponent e are the multiples of g = 10 * 2^e units
\* U, and x lies r units above one of them.
RoundToDouble(x) ==
    LET e == Exponent(x)
        g == 10 * Pow2(e)
        a20 == ((x.t % 20) * TwoPowMod20(52 - e)) % 20
        low == Pow2(e) * (a20 % 10) + x.n
        r == low % g
        odd == (((a20 \div 10) + ((low - r) \div g)) % 2) = 1
        down == [t |-> x.t, n |-> x.n - r]
        up == [t |-> x.t, n |-> x.n - r + g]
    IN  IF r = 0 THEN x
        ELSE IF 2 * r < g THEN down
        ELSE IF 2 * r > g THEN up
        ELSE IF odd THEN up ELSE down

\* chunk['word_count'] * 1.3
TokensOfChunk(word_count) == RoundToDouble([t |-> 13 * word_count, n |-> 2 * word_count])

RECURSIVE SumLeftToRight(_, _)
\* sum(...) adding float to float, rounding after every addition (CPython up
\* to 3.11); the first k terms.
SumLeftToRight(terms, k) ==
    IF k = 0 THEN [t |-> 0, n |-> 0]
    ELSE IF k = 1 THEN terms[1]
    ELSE LET acc == SumLeftToRight(terms, k - 1)
         IN  RoundToDouble([t |-> acc.t + terms[k].t, n |-> acc.n + terms[k].n])

\* sum(...) with compensated summation (CPython from 3.12): the exact sum of
\* the terms, rounded once.
SumCompensated(terms) ==
    IF terms = <<>> THEN [t |-> 0, n |-> 0]
    ELSE RoundToDouble([t |-> SumSeq([i \in 1..Len(terms) |-> terms[i].t]),
                        n |-> SumSeq([i \in 1..Len(terms) |-> terms[i].n])])

\* total_tokens: what sum() gives, by interpreter version.
TotalTokens(chunk_list) ==
    LET terms == [i \in 1..Len(chunk_list) |-> TokensOfChunk(chunk_list[i].word_count)]
    IN  { SumLeftToRight(terms, Len(terms)), SumCompensated(terms) }

\* int(total_tokens): truncation of a value that is not negative.
IntOf(x) == (x.t \div 10) - (IF x.t % 10 = 0 /\ x.n < 0 THEN 1 ELSE 0)

\* round(num / den, 0) of a positive quotient of small integers: the nearest
\* integer, either neighbour at a half (the side follows the rounding error
\* of the float quotient).
Rounded(num, den) ==
    LET q == num \div den
        rem == num % den
    IN  IF 2 * rem < den THEN {q}
        ELSE IF 2 * rem > den THEN {q + 1}
        ELSE {q, q + 1}

\* Faulty variant: total_cost / len(chunks) without the guard.
CostPerChunkUnguarded(total_tokens, n) ==
    IF n = 0 THEN [raised |-> TRUE, values |-> {0}]
    ELSE [raised |-> FALSE, values |-> Rounded(total_tokens.t, 10 * n)]

\* round(total_cost / len(chunks), 4) if chunks else 0, in units of
\* cost_per_token = 0.0001.
CostPerChunk(total_tokens, n) ==
    IF n = 0 THEN [raised |-> FALSE, values |-> {0}]
    ELSE [raised |-> FALSE, values |-> Rounded(total_tokens.t, 10 * n)]

\* calculate_processing_cost(chunks) with the default cost_per_token: what it
\* may return or raise; costs in units of cost_per_token.
CalculateProcessingCostResults(chunk_list) ==
    LET n == Len(chunk_list)
    IN  UNION { { IF CostPerChunk(total_tokens, n).raised
                  THEN [raised |-> TRUE, value |-> <<>>]
                  ELSE [raised |-> FALSE,
                        value |-> [total_chunks |-> n,
                                   estimated_tokens |-> IntOf(total_tokens),
                                   estimated_cost |-> c,
                                   cost_per_chunk |-> k]] :
                    c \in Rounded(total_tokens.t, 10),
                    k \in CostPerChunk(total_tokens, n).values } :
                total_tokens \in TotalTokens(chunk_list) }

\* calculate_processing_cost on the chunks of call_args
CalculateProcessingCost ==
    /\ call_args.op = "calculate_processing_cost"
    /\ ret.op = "__init__"
    /\ \E r \in CalculateProcessingCostResults(call_args.chunks) :
          ret' = Result("calculate_processing_cost", r.raised, r.value)
    /\ UNCHANGED <<vectorizer, fitted, files>>
    /\ UNCHANGED <<chunkerVars, call_args, threads, graph>>

CostInit ==
    /\ ChunkerIdle
    /\ EmbeddingManagerInit
    /\ files = [p \in Paths |-> MissingFile]
    /\ call_args \in { [op |-> "calculate_processing_cost", chunks |-> c] : c \in CostChunks }
    /\ threads = <<>>
    /\ graph = NoGraphManager

CostNext == CalculateProcessingCost

\* calculate_processing_cost called on a list of chunks.
CostSpec == CostInit /\ [][CostNext]_vars

\* ------------------------------------------------ the chunker, called twice

\* Faulty variant: the running id goes on from where the earlier run left it.
ChunkIdOfEarlierRun(left_by_earlier_run) == left_by_earlier_run

\* chunk_id = 1: a local of the call, whatever an earlier run left.
FirstChunkId(left_by_earlier_run) == 1

\* create_semantic_chunks called again on the same document_content by the
\* same DocumentProcessor once the first call has returned: the caller keeps
\* the first result, chunks and chunk_id are bound anew, and the locals of the
\* page loop are bound by the loop.
CallAgain ==
    /\ pc = "return"
    /\ ret.op = "__init__"
    /\ ret' = Result("create_semantic_chunks", FALSE, chunks)
    /\ chunks' = <<>>
    /\ chunk_id' = FirstChunkId(chunk_id)
    /\ page_i' = 0
    /\ pc' = "page"
    /\ UNCHANGED <<document_content, chunk_size, chunk_overlap,
                   para_i, table_i, current_chunk, current_chunk_paras>>
    /\ UNCHANGED <<vectorizer, fitted, files, call_args, threads, graph>>

RerunNext ==
    \/ Next
    \/ CallAgain

\* Two runs of create_semantic_chunks on one input and configuration.
RerunSpec == Init /\ [][RerunNext]_vars

\* ------------------------------------------------------ the text of a table

\* Rows of one table, cells of one row.
MaxRows == 3
MaxCells == 2

\* A cell: None or '' (both the empty text), or a word.
CellTexts == { <<>>, <<"t">> }

\* A row as page.extract_tables() gives it: a list of cells, possibly empty.
TableRows == UNION { [1..n -> CellTexts] : n \in 0..MaxCells }

\* table['data']: a list of rows.
TableInputs == UNION { [1..n -> TableRows] : n \in 0..MaxRows }

\* _table_to_text on the table data of call_args
TableToTextStep ==
    /\ call_args.op = "_table_to_text"
    /\ ret.op = "__init__"
    /\ ret' = Result("_table_to_text", FALSE, TableToText(call_args.table_data))
    /\ UNCHANGED <<vectorizer, fitted, files>>
    /\ UNCHANGED <<chunkerVars, call_args, threads, graph>>

TableInit ==
    /\ ChunkerIdle
    /\ EmbeddingManagerInit
    /\ files = [p \in Paths |-> MissingFile]
    /\ call_args \in { [op |-> "_table_to_text", table_data |-> d] : d \in TableInputs }
    /\ threads = <<>>
    /\ graph = NoGraphManager

TableNext == TableToTextStep

\* _table_to_text called on the data of a table.
TableSpec == TableInit /\ [][TableNext]_vars

\* ------------------------------------------------------- the graph database

\* Chunks of one saved document, Upload nodes, the limit of a query.
MaxGraphChunks == 2
MaxUploads == 2
MaxLimit == 2

\* document_data['name']
DocumentNames == {"a", "b"}

\* The chunks argument of save_document: what create_semantic_chunks
\* returned for the document, its chunk_id running from 1.
GraphChunks(n) ==
    LET content == <<"a", " ", "b">>
    IN  [i \in 1..n |-> [chunk_id |-> i,
                         content |-> content,
                         page_number |-> i,
                         chunk_type |-> "paragraph",
                         word_count |-> Len(PySplit(content))]]

RECURSIVE CreateChunks(_, _, _, _)
\* for chunk in chunks: session.run(chunk_query, ...), from chunk k on:
\* CREATE (c:Chunk {...}) CREATE (d)-[:CONTAINS]->(c). Each run is a
\* transaction of its own; a uniqueness constraint rejects the write of a
\* chunk_id a node holds already, the run that fails leaves nothing, and its
\* error ends the loop.
CreateChunks(g, document_name, chunk_list, k) ==
    IF k > Len(chunk_list) THEN [graph |-> g, raised |-> FALSE]
    ELSE IF /\ "chunk_id" \in g.constraints
            /\ \E c \in g.chunk_nodes : c.chunk_id = chunk_list[k].chunk_id
         THEN [graph |-> g, raised |-> TRUE]
         ELSE CreateChunks(
                 [g EXCEPT !.chunk_nodes =
                     @ \cup {[chunk_id |-> chunk_list[k].chunk_id,
                              content |-> chunk_list[k].content,
                              page_number |-> chunk_list[k].page_number,
                              chunk_type |-> chunk_list[k].chunk_type,
                              word_count |-> chunk_list[k].word_count,
                              document_name |-> document_name]}],
                 document_name, chunk_list, k + 1)

\* MATCH (d:Document {name: $name})
HasDocument(g, document_name) ==
    \E i \in 1..Len(g.documents) : g.documents[i].name = document_name

\* save_document(document_data, chunks): CREATE (d:Document {...,
\* processing_status: 'processing'}), the chunks, then
\* SET d.processing_status = 'completed'
SaveDocumentCall(g, document_data, chunk_list) ==
    IF ~g.driver
    THEN [graph |-> g, raised |-> FALSE, value |-> document_data.name]
    ELSE IF HasDocument(g, document_data.name)
    THEN [graph |-> g, raised |-> TRUE, value |-> <<>>]
    ELSE LET created == [g EXCEPT !.documents =
                            Append(@, [name |-> document_data.name,
                                       total_chunks |-> Len(chunk_list),
                                       processing_status |-> "processing"])]
             r == CreateChunks(created, document_data.name, chunk_list, 1)
         IN  IF r.raised
             THEN [graph |-> r.graph, raised |-> TRUE, value |-> <<>>]
             ELSE [graph |-> [r.graph EXCEPT !.documents =
                                [i \in DOMAIN @ |->
                                   IF @[i].name = document_data.name
                                   THEN [@[i] EXCEPT !.processing_status = "completed"]
                                   ELSE @[i]]],
                   raised |-> FALSE,
                   value |-> document_data.name]

\* The chunks a document CONTAINS.
ChunksOf(g, document_name) ==
    { c \in g.chunk_nodes : c.document_name = document_name }

RECURSIVE TotalWords(_)
\* sum(c.word_count)
TotalWords(nodes) ==
    IF nodes = {} THEN 0
    ELSE LET c == CHOOSE c \in nodes : TRUE
         IN  c.word_count + TotalWords(nodes \ {c})

\* ORDER BY c.page_number LIMIT $limit: the first limit rows by page number,
\* rows of one page number in whatever order the server gives them.
OrderedByPage(nodes, limit) ==
    LET n == Min(limit, Cardinality(nodes))
    IN  { rows \in [1..n -> nodes] :
            /\ \A i, j \in 1..n :
                 i < j => /\ rows[i] # rows[j]
                          /\ rows[i].page_number <= rows[j].page_number
            /\ \A c \in nodes :
                 (\A i \in 1..n : rows[i] # c)
                    => \A i \in 1..n : rows[i].page_number <= c.page_number }

\* What a call leaves: the database after it and what the caller got.
GraphStep(op, r) ==
    /\ ~graph.closed
    /\ graph' = r.graph
    /\ ret' = Result(op, r.raised, r.value)
    /\ UNCHANGED <<vectorizer, fitted, files>>
    /\ UNCHANGED <<chunkerVars, call_args, threads>>

\* initialize_database(): outside mock mode it declares the constraints,
\* each in a try of its own; a uniqueness constraint is refused while the
\* stored nodes break it.
InitializeDatabase ==
    \E r \in { IF ~graph.driver
               THEN [graph |-> graph, raised |-> FALSE, value |-> <<>>]
               ELSE [graph |->
                       [graph EXCEPT !.constraints =
                          @ \cup {"document_name"}
                            \cup (IF \A c, d \in graph.chunk_nodes :
                                        c.chunk_id = d.chunk_id => c = d
                                  THEN {"chunk_id"} ELSE {})
                            \cup (IF \A i, j \in 1..Len(graph.uploads) :
                                        graph.uploads[i] = graph.uploads[j] => i = j
                                  THEN {"upload_id"} ELSE {})],
                     raised |-> FALSE,
                     value |-> <<>>] } :
        GraphStep("initialize_database", r)

\* save_document(document_data, chunks). A name is saved once: a second
\* Document of a stored name is what the document_name constraint refuses;
\* without the constraint it is left out.
SaveDocument(document_data, chunk_list) ==
    /\ (graph.driver /\ HasDocument(graph, document_data.name))
          => "document_name" \in graph.constraints
    /\ GraphStep("save_document", SaveDocumentCall(graph, document_data, chunk_list))

\* get_all_documents(): ORDER BY d.upload_date DESC
GetAllDocuments ==
    \E r \in { IF ~graph.driver
               THEN [graph |-> graph, raised |-> FALSE,
                     value |-> << [name |-> "Sample Clinical Study.pdf",
                                   status |-> "completed",
                                   total_chunks |-> 25,
                                   actual_chunks |-> 25] >>]
               ELSE [graph |-> graph, raised |-> FALSE,
                     value |->
                       [i \in 1..Len(graph.documents) |->
                          LET d == graph.documents[Len(graph.documents) + 1 - i]
                          IN  [name |-> d.name,
                               status |-> d.processing_status,
                               total_chunks |-> d.total_chunks,
                               actual_chunks |-> Cardinality(ChunksOf(graph, d.name))]]] } :
        GraphStep("get_all_documents", r)

\* delete_document(document_name): no check of self.driver, so that
\* self.driver.session() raises in mock mode
DeleteDocument(document_name) ==
    \E r \in { IF ~graph.driver
               THEN [graph |-> graph, raised |-> TRUE, value |-> <<>>]
               ELSE [graph |->
                       [graph EXCEPT
                          !.documents = SelectSeq(@, LAMBDA d : d.name # document_name),
                          !.chunk_nodes = @ \ ChunksOf(graph, document_name)],
                     raised |-> FALSE,
                     value |-> HasDocument(graph, document_name)] } :
        GraphStep("delete_document", r)

\* get_statistics()
GetStatistics ==
    \E r \in { IF ~graph.driver
               THEN [graph |-> graph, raised |-> FALSE,
                     value |-> [total_documents |-> 1, total_chunks |-> 25,
                                total_triples |-> 50, total_words |-> 5000]]
               ELSE [graph |-> graph, raised |-> FALSE,
                     value |-> [total_documents |-> Len(graph.documents),
                                total_chunks |-> Cardinality(graph.chunk_nodes),
                                total_triples |-> 0,
                                total_words |-> TotalWords(graph.chunk_nodes)]] } :
        GraphStep("get_statistics", r)

\* search_chunks(query, limit): WHERE c.content CONTAINS $query
SearchChunks(query, limit) ==
    \E r \in IF ~graph.driver
             THEN { [graph |-> graph, raised |-> FALSE,
                     value |-> << [document_name |-> "Sample Clinical Study.pdf",
                                   chunk_id |-> "chunk_001",
                                   content |-> <<"Mock search result for query: ", query>>,
                                   page_number |-> 1,
                                   chunk_type |-> "paragraph"] >>] }
             ELSE { [graph |-> graph, raised |-> FALSE,
                     value |-> [i \in DOMAIN rows |->
                                  [document_name |-> rows[i].document_name,
                                   chunk_id |-> rows[i].chunk_id,
                                   content |-> rows[i].content,
                                   page_number |-> rows[i].page_number,
                                   chunk_type |-> rows[i].chunk_type]]] :
                      rows \in OrderedByPage(
                                 { c \in graph.chunk_nodes :
                                     \E i \in 0..(Len(c.content) - Len(query)) :
                                        SubSeq(c.content, i + 1, i + Len(query)) = query },
                                 limit) } :
        GraphStep("search_chunks", r)

\* save_upload_metadata(upload_data)
SaveUploadMetadata(upload_data) ==
    /\ Len(graph.uploads) < MaxUploads
    /\ \E r \in { IF ~graph.driver
                  THEN [graph |-> graph, raised |-> FALSE,
                        value |-> upload_data.upload_id]
                  ELSE IF /\ "upload_id" \in graph.constraints
                          /\ \E i \in 1..Len(graph.uploads) :
                                graph.uploads[i] = upload_data.upload_id
                  THEN [graph |-> graph, raised |-> TRUE, value |-> <<>>]
                  ELSE [graph |-> [graph EXCEPT !.uploads =
                                      Append(@, upload_data.upload_id)],
                        raised |-> FALSE,
                        value |-> upload_data.upload_id] } :
          GraphStep("save_upload_metadata", r)

\* get_document_chunks(document_name, limit)
GetDocumentChunks(document_name, limit) ==
    \E r \in IF ~graph.driver
             THEN { [graph |-> graph, raised |-> FALSE,
                     value |-> << [chunk_id |-> "chunk_001",
                                   content |-> <<"Mock content for ", document_name>>,
                                   page_number |-> 1,
                                   chunk_type |-> "paragraph",
                                   word_count |-> 50] >>] }
             ELSE { [graph |-> graph, raised |-> FALSE,
                     value |-> [i \in DOMAIN rows |->
                                  [chunk_id |-> rows[i].chunk_id,
                                   content |-> rows[i].content,
                                   page_number |-> rows[i].page_number,
                                   chunk_type |-> rows[i].chunk_type,
                                   word_count |-> rows[i].word_count]]] :
                      rows \in OrderedByPage(ChunksOf(graph, document_name), limit) } :
        GraphStep("get_document_chunks", r)

\* close()
Close ==
    \E r \in { IF ~graph.driver
               THEN [graph |-> graph, raised |-> FALSE, value |-> <<>>]
               ELSE [graph |-> [graph EXCEPT !.closed = TRUE],
                     raised |-> FALSE, value |-> <<>>] } :
        GraphStep("close", r)

\* GraphManager(): connect() reached the server or it did not; the database
\* is empty.
GraphInit ==
    /\ ChunkerIdle
    /\ EmbeddingManagerInit
    /\ files = [p \in Paths |-> MissingFile]
    /\ call_args = <<>>
    /\ threads = <<>>
    /\ graph \in { GraphManagerInit(connected) : connected \in BOOLEAN }

GraphNext ==
    \/ InitializeDatabase
    \/ \E name \in DocumentNames, n \in 0..MaxGraphChunks :
          SaveDocument([name |-> name], GraphChunks(n))
    \/ GetAllDocuments
    \/ \E name \in DocumentNames : DeleteDocument(name)
    \/ GetStatistics
    \/ \E query \in { <<"b">>, <<"b", "a">> }, limit \in 1..MaxLimit :
          SearchChunks(query, limit)
    \/ \E id \in {"u1", "u2"} : SaveUploadMetadata([upload_id |-> id])
    \/ \E name \in DocumentNames, limit \in 1..MaxLimit : GetDocumentChunks(name, limit)
    \/ Close

\* The operations of one GraphManager, in any order.
GraphSpec == GraphInit /\ [][GraphNext]_vars

\* ------------------------------------------------- combined search results

\* Results of one search.
MaxResults == 2

\* What search_chunks returns: rows of different chunks, each a chunk of a
\* stored document.
ResultLists ==
    LET rows == { [document_name |-> d, chunk_id |-> i] :
                    d \in DocumentNames, i \in 1..MaxGraphChunks }
    IN  { results \in UNION { [1..n -> rows] : n \in 0..MaxResults } :
            \A i, j \in 1..Len(results) : i < j => results[i] # results[j] }

\* result['search_type'] = search_type
Tagged(result, search_type) ==
    [document_name |-> result.document_name,
     chunk_id |-> result.chunk_id,
     search_type |-> search_type]

RECURSIVE AddResults(_, _, _, _)
\* for result in results: if result['chunk_id'] not in seen_chunks: ...
AddResults(combined, seen_chunks, results, search_type) ==
    IF results = <<>>
    THEN [combined |-> combined, seen_chunks |-> seen_chunks]
    ELSE LET result == Head(results)
         IN  IF result.chunk_id \notin seen_chunks
             THEN AddResults(Append(combined, Tagged(result, search_type)),
                             seen_chunks \cup {result.chunk_id},
                             Tail(results), search_type)
             ELSE AddResults(combined, seen_chunks, Tail(results), search_type)

\* _combine_results(text_results, semantic_results)
CombineResultsCall(text_results, semantic_results) ==
    LET text == AddResults(<<>>, {}, text_results, "text")
    IN  AddResults(text.combined, text.seen_chunks,
                   semantic_results, "semantic").combined

CombineResults ==
    /\ call_args.op = "_combine_results"
    /\ ret.op = "__init__"
    /\ ret' = Result("_combine_results", FALSE,
                     CombineResultsCall(call_args.text_results,
                                        call_args.semantic_results))
    /\ UNCHANGED <<vectorizer, fitted, files>>
    /\ UNCHANGED <<chunkerVars, call_args, threads, graph>>

CombineInit ==
    /\ ChunkerIdle
    /\ EmbeddingManagerInit
    /\ files = [p \in Paths |-> MissingFile]
    /\ call_args \in { [op |-> "_combine_results",
                        text_results |-> t,
                        semantic_results |-> m] : t \in ResultLists, m \in ResultLists }
    /\ threads = <<>>
    /\ graph = NoGraphManager

CombineNext == CombineResults

\* _combine_results called on the results of two searches.
CombineSpec == CombineInit /\ [][CombineNext]_vars

\* ------------------------------------------------- properties: the chunker

ParagraphChunks == { i \in 1..Len(chunks) : chunks[i].chunk_type = "paragraph" }
TableChunks == { i \in 1..Len(chunks) : chunks[i].chunk_type = "table" }

\* C1: the chunk_id values of the chunk list are 1, 2, ..., N in output
\* order (start at 1, no gaps, no repeats, not reset at a page boundary), at
\* every point of the run and so in the list returned.
C1_ChunkIdsContiguous ==
    /\ \A i \in 1..Len(chunks) : chunks[i].chunk_id = i
    /\ chunk_id = Len(chunks) + 1

\* A returned list of three or more chunks from two pages.
C1_Witness ==
    /\ pc = "return"
    /\ Len(chunks) >= 3
    /\ chunks[1].page_number = 1
    /\ chunks[Len(chunks)].page_number = 2

\* The longest paragraph text of a page.
MaxParagraphLen(page) ==
    LET lens == { Len(page.paragraphs[i].text) : i \in 1..Len(page.paragraphs) }
    IN  IF lens = {} THEN 0 ELSE CHOOSE n \in lens : \A m \in lens : m <= n

\* C2 (as the specification states it): the content of a paragraph chunk is
\* longer than chunk_size by at most the length of one paragraph of its page.
C2_ContentWithinOneParagraph ==
    \A i \in ParagraphChunks :
        Len(chunks[i].content)
            <= chunk_size + MaxParagraphLen(document_content.pages[chunks[i].page_number])

\* C3: for every chunk, of either kind, char_count is the length of content
\* and word_count is the number of whitespace-separated tokens of content.
C3_CountsMatchContent ==
    \A i \in 1..Len(chunks) :
        /\ chunks[i].char_count = Len(chunks[i].content)
        /\ chunks[i].word_count = Len(PySplit(chunks[i].content))

\* A returned list with a table chunk of two lines and a paragraph chunk of
\* three or more words.
C3_Witness ==
    /\ pc = "return"
    /\ \E i \in TableChunks : chunks[i].word_count >= 3
    /\ \E i \in ParagraphChunks : chunks[i].word_count >= 3

\* A step of the else branch: a paragraph consumed and no chunk closed.
AppendStep ==
    /\ pc = "paragraphs"
    /\ para_i' = para_i + 1
    /\ chunks' = chunks

\* C4 (as the specification states it): a paragraph is appended to a
\* non-empty accumulator only when the accumulator, after the space-joined
\* append, is no longer than chunk_size.
C4_AppendKeepsWithinSize ==
    [][(AppendStep /\ current_chunk # <<>>) => Len(current_chunk') <= chunk_size]_vars

\* A step of the size check firing: a paragraph consumed and a chunk closed.
CloseStep ==
    /\ pc = "paragraphs"
    /\ para_i' = para_i + 1
    /\ Len(chunks') = Len(chunks) + 1

\* C5: when the size check closes a chunk, the next accumulator is the last
\* min(chunk_overlap, number of words) words of the closed accumulator joined
\* by single spaces, then a space, then the new paragraph's text; with
\* chunk_overlap 0 it is the new paragraph's text alone.
C5_OverlapSeed ==
    [][CloseStep =>
         LET words == PySplit(current_chunk)
             k == Min(chunk_overlap, Len(words))
             para_text == CurPage.paragraphs[para_i + 1].text
         IN  current_chunk' =
                 IF chunk_overlap = 0 THEN para_text
                 ELSE PyJoin(<<" ">>, [j \in 1..k |-> words[Len(words) - k + j]])
                          \o <<" ">> \o para_text]_vars

\* Just after a close: the closed chunk had more words than chunk_overlap,
\* and the accumulator is the last of them and the new paragraph.
C5_Witness ==
    /\ pc = "paragraphs"
    /\ chunk_overlap = 1
    /\ Len(chunks) >= 1
    /\ chunks[Len(chunks)].page_number = page_i
    /\ chunks[Len(chunks)].word_count >= 2
    /\ Len(current_chunk_paras) = 1
    /\ Len(PySplit(current_chunk)) >= 2

\* The tables of the input, as <<page index, table index>>.
InputTables ==
    { <<p, t>> \in (1..Len(document_content.pages)) \X (1..MaxTables) :
        t <= Len(document_content.pages[p].tables) }

\* The tables the run has been through.
ProcessedTables ==
    { pt \in InputTables :
        \/ pt[1] < page_i
        \/ pt[1] = page_i /\ pc \in {"page", "return"}
        \/ pt[1] = page_i /\ pc = "tables" /\ pt[2] <= table_i }

\* C6: every table gone through has exactly one table chunk carrying its
\* table_id, on its page, whose content is the whole text of that table and
\* nothing else; there are no other table chunks (so in the returned list
\* the table chunks and the input's tables correspond one to one).
C6_OneChunkPerTable ==
    /\ \A pt \in ProcessedTables :
         LET table == document_content.pages[pt[1]].tables[pt[2]]
             own == { i \in TableChunks : chunks[i].table_id = table.table_id }
         IN  /\ Cardinality(own) = 1
             /\ \A i \in own :
                  /\ chunks[i].page_number = document_content.pages[pt[1]].page_number
                  /\ chunks[i].content = TableToText(table.data)
                  /\ chunks[i].paragraph_numbers = <<>>
    /\ Cardinality(TableChunks) = Cardinality(ProcessedTables)
    /\ \A i \in ParagraphChunks : chunks[i].table_id = NoTableId

\* A returned list for an input of two tables on one page, after paragraphs.
C6_Witness ==
    /\ pc = "return"
    /\ Cardinality(TableChunks) = 2
    /\ \E p \in 1..Len(document_content.pages) :
         /\ Len(document_content.pages[p].tables) = 2
         /\ Len(document_content.pages[p].paragraphs) >= 1

\* The characters paragraphs of page p are written in, and the joining space.
PageChars(p) == { Letters[2 * p - 1], Letters[2 * p], " " }

\* The last paragraph chunk of page p, 0 when it has none.
LastParagraphChunk(p) ==
    LET own == { i \in ParagraphChunks : chunks[i].page_number = p }
    IN  IF own = {} THEN 0 ELSE CHOOSE i \in own : \A j \in own : j <= i

\* C7: no chunk spans two pages. The content of a paragraph chunk is made of
\* text of the page its page_number names; the accumulator and its paragraph
\* ids are empty when a page starts; and once the paragraphs of a page are
\* done, a non-empty accumulator is that page's last paragraph chunk,
\* whatever its length.
C7_ChunksStayOnTheirPage ==
    /\ \A i \in ParagraphChunks :
         /\ \A j \in 1..Len(chunks[i].content) :
              chunks[i].content[j] \in PageChars(chunks[i].page_number)
         /\ \A j \in 1..Len(chunks[i].paragraph_numbers) :
              chunks[i].paragraph_numbers[j]
                  \in 1..Len(document_content.pages[chunks[i].page_number].paragraphs)
    /\ (pc = "paragraphs" /\ para_i = 0) =>
         (current_chunk = <<>> /\ current_chunk_paras = <<>>)
    /\ (pc \in {"tables", "page", "return"} /\ page_i >= 1 /\ current_chunk # <<>>) =>
         /\ LastParagraphChunk(page_i) # 0
         /\ chunks[LastParagraphChunk(page_i)].content = current_chunk
         /\ chunks[LastParagraphChunk(page_i)].paragraph_numbers = current_chunk_paras

\* The second page starts after a first page that left an accumulator
\* shorter than chunk_size, emitted as the first page's last chunk.
C7_Witness ==
    /\ pc = "paragraphs"
    /\ page_i = 2
    /\ para_i = 0
    /\ Len(document_content.pages[2].paragraphs) >= 1
    /\ LastParagraphChunk(1) # 0
    /\ Len(chunks[LastParagraphChunk(1)].content) < chunk_size

\* ----------------------------------------- properties: the embedding engine

\* C8 (as the specification states it): once the engine is fit, no operation
\* returns it to the unfit state or re-fits or replaces its model.
C8_FitIsOneWay ==
    [][fitted => (fitted' /\ vectorizer' = vectorizer)]_vars

\* C9 (as the specification states it): calculate_similarity on two vectors
\* of different dimensionality reports an error and returns no value.
C9_DimensionMismatchIsError ==
    (ret.op = "calculate_similarity" /\ Len(call_args[1]) # Len(call_args[2]))
        => ret.raised

\* C10 (as the specification states it): generate_single_embedding on an
\* engine that is not fit does not fail: it leaves the engine fit and
\* returns a vector.
C10_SingleEmbeddingFitsUnfitEngine ==
    [][(~fitted /\ ret'.op = "generate_single_embedding")
          => (fitted' /\ ~ret'.raised)]_vars

\* ------------------------------------------------------ properties: searches

\* idx lists, in result order, the candidates (by position) a ranking
\* returned and res_scores the scores it gave them: they are the
\* min(top_k, n) best of the n candidates whose scores are `scores`, in
\* non-increasing score order, equal scores in candidate order.
IsTopK(idx, res_scores, scores, top_k) ==
    /\ Len(idx) = Min(top_k, Len(scores))
    /\ \A j \in 1..Len(idx) :
          idx[j] \in 1..Len(scores) /\ res_scores[j] = scores[idx[j]]
    /\ \A j, k \in 1..Len(idx) :
          j < k => \/ scores[idx[j]] > scores[idx[k]]
                   \/ scores[idx[j]] = scores[idx[k]] /\ idx[j] < idx[k]
    /\ \A i \in 1..Len(scores) :
          (\A j \in 1..Len(idx) : idx[j] # i) =>
              \A j \in 1..Len(idx) :
                  \/ scores[idx[j]] > scores[i]
                  \/ scores[idx[j]] = scores[i] /\ idx[j] < i

\* C11: a ranking of n candidates with top_k >= 0 returns min(top_k, n)
\* entries, the highest-scoring candidates in non-increasing score order,
\* equal scores in their original order, and all n when top_k > n; for
\* find_similar_chunks and for semantic_search when nothing raised inside.
C11_TopKRanking ==
    /\ ret.op = "find_similar_chunks" =>
         IsTopK([j \in 1..Len(ret.value) |-> ret.value[j].chunk_index + 1],
                [j \in 1..Len(ret.value) |-> ret.value[j].similarity_score],
                Similarities(call_args.query_embedding, call_args.chunk_embeddings),
                call_args.top_k)
    /\ (ret.op = "semantic_search" /\ fitted /\ call_args.documents # <<>>) =>
         /\ IsTopK([j \in 1..Len(ret.value) |-> ret.value[j].chunk_id],
                   [j \in 1..Len(ret.value) |-> ret.value[j].similarity_score],
                   Similarities(Vector(vectorizer, call_args.query),
                                [i \in 1..Len(call_args.documents) |->
                                   Vector(vectorizer, call_args.documents[i].content)]),
                   call_args.top_k)
         /\ \A j \in 1..Len(ret.value) :
               ret.value[j].content = call_args.documents[ret.value[j].chunk_id].content

\* Three candidates of one score and top_k = 2: the first two are returned,
\* in candidate order.
C11_Witness ==
    /\ ret.op = "find_similar_chunks"
    /\ Len(call_args.chunk_embeddings) = 3
    /\ call_args.top_k = 2
    /\ Len(ret.value) = 2
    /\ ret.value[1].similarity_score > 0
    /\ ret.value[1].similarity_score = ret.value[2].similarity_score
    /\ \A i \in 1..3 :
          Similarities(call_args.query_embedding, call_args.chunk_embeddings)[i]
              = ret.value[1].similarity_score

\* The caller's records of a semantic search: documents of
\* EmbeddingManager.semantic_search, chunks of LLMProcessor.semantic_search.
SearchedRecords(args) ==
    IF args.op = "semantic_search" THEN args.documents
    ELSE IF args.op = "llm_semantic_search" THEN args.chunks
    ELSE <<>>

\* C13: a semantic search leaves the caller's stored records as they were,
\* whether it returns a ranking or the empty error result: no record gains
\* a similarity_score, and every entry of the result carries one.
C13_SearchLeavesDocuments ==
    [][ret'.op \in {"semantic_search", "llm_semantic_search"} =>
          /\ SearchedRecords(call_args') = SearchedRecords(call_args)
          /\ \A i \in 1..Len(SearchedRecords(call_args')) :
                "similarity_score" \notin DOMAIN SearchedRecords(call_args')[i]
          /\ \A j \in 1..Len(ret'.value) :
                "similarity_score" \in DOMAIN ret'.value[j]]_vars

\* A search of three documents returned two scored copies.
C13_Witness ==
    /\ ret.op = "semantic_search"
    /\ Len(call_args.documents) = 3
    /\ Len(ret.value) = 2
    /\ ret.value[1].similarity_score > 0
    /\ \A i \in 1..3 : DOMAIN call_args.documents[i] = {"chunk_id", "content"}

\* ----------------------------------------- properties: similarity, batches

\* C12: for two vectors of one dimension neither similarity routine raises,
\* and the similarity is exactly 0 when either vector is all zeros.
C12_ZeroVectorGivesZero ==
    (/\ ret.op \in {"calculate_similarity", "_cosine_similarity"}
     /\ Len(call_args[1]) = Len(call_args[2]))
    => /\ ~ret.raised
       /\ (NormSq(call_args[1]) = 0 \/ NormSq(call_args[2]) = 0) => ret.value = 0

\* _cosine_similarity has compared an all-zero vector with a non-zero one.
C12_Witness ==
    /\ ret.op = "_cosine_similarity"
    /\ call_args = << <<0, 0>>, <<1, 2>> >>
    /\ ret.value = 0

\* C14: batch_process_chunks returns the chunks it was given in order, with
\* an 'embedding' on every chunk, for any non-empty sequence of chunks.
C14_EveryChunkGetsEmbedding ==
    (ret.op = "batch_process_chunks" /\ ret.value # <<>>) =>
        \A i \in 1..Len(ret.value) :
            /\ ret.value[i].chunk_id = i
            /\ "embedding" \in DOMAIN ret.value[i]

\* What load_embeddings returns for a readable blob whose stored vector data
\* is empty.
EmptyBlobLoads ==
    { Result("load_embeddings", FALSE, LoadEmbeddingsCall(vectorizer, fitted, f).value) :
        f \in { g \in InitialFiles :
                  /\ g.kind = "dict" /\ g.has_vectorizer
                  /\ g.has_embeddings /\ g.embeddings = <<>> } }

\* C15: what load_embeddings gives for a missing or corrupt file differs
\* from what it gives for a readable blob with empty vector data.
C15_LoadFailureDistinguishable ==
    (/\ ret.op = "load_embeddings"
     /\ \E file_path \in Paths : files[file_path].kind \in {"missing", "corrupt"})
    => ret \notin EmptyBlobLoads

\* ------------------------------------------------- properties: two callers

\* C16: sharing one unfit engine between two concurrent generate_embeddings
\* calls is unsafe: every caller that read fitted = False fits the model on
\* its own texts, and the vectors it returns are those of its own fit, so
\* two such callers get vectors from different fits.
C16_UnfitReadersReturnOwnFit ==
    \A t \in DOMAIN threads :
        (/\ threads[t].pc = "done"
         /\ ~threads[t].saw_fitted
         /\ ~threads[t].raised)
        => /\ threads[t].own = FitTransform(threads[t].texts).vectorizer
           /\ threads[t].value = FitTransform(threads[t].texts).value

\* Both threads read fitted = False, both fit, and the vectors returned to
\* them have the columns of different vocabularies.
C16_Witness ==
    /\ DOMAIN threads = ThreadIds
    /\ \A t \in ThreadIds :
          /\ threads[t].pc = "done"
          /\ ~threads[t].saw_fitted
          /\ ~threads[t].raised
    /\ threads[1].own.vocabulary # threads[2].own.vocabulary
    /\ Len(threads[1].value[1]) # Len(threads[2].value[1])
    /\ fitted

\* ---------------------------------------------------- properties: paragraphs

\* C17: the records _extract_paragraphs returns carry paragraph_id 1, 2, ...,
\* n in source order, whatever blank candidates were discarded; an empty text
\* gives no record.
C17_ParagraphIdsContiguous ==
    ret.op = "_extract_paragraphs" =>
        /\ \A i \in 1..Len(ret.value) : ret.value[i].paragraph_id = i
        /\ call_args.text = <<>> => ret.value = <<>>

\* ------------------------------------------------ properties: cost estimate

\* C18: estimated_tokens is the sum over the chunks of word_count x 1.3
\* truncated once after summing, floor(13 * sum(word_count) / 10).
C18_TokensTruncatedOnce ==
    ret.op = "calculate_processing_cost" =>
        /\ ~ret.raised
        /\ ret.value.estimated_tokens =
             (13 * SumSeq([i \in 1..Len(call_args.chunks) |->
                             call_args.chunks[i].word_count])) \div 10

\* C19: for the empty chunk sequence calculate_processing_cost raises
\* nothing and returns total_chunks 0, estimated_tokens 0, estimated_cost 0
\* and cost_per_chunk 0.
C19_EmptyCostIsZero ==
    (ret.op = "calculate_processing_cost" /\ call_args.chunks = <<>>) =>
        /\ ~ret.raised
        /\ ret.value = [total_chunks |-> 0, estimated_tokens |-> 0,
                        estimated_cost |-> 0, cost_per_chunk |-> 0]

\* The estimate of the empty sequence has been returned.
C19_Witness ==
    /\ ret.op = "calculate_processing_cost"
    /\ call_args.chunks = <<>>
    /\ ~ret.raised
    /\ ret.value.cost_per_chunk = 0

\* ---------------------------------------------- properties: the second run

\* C20: a second run of create_semantic_chunks on the same input with the
\* same chunk_size and chunk_overlap returns a chunk sequence identical to
\* that of the first run.
C20_SecondRunIdentical ==
    (pc = "return" /\ ret.op = "create_semantic_chunks") => chunks = ret.value

\* The second run has returned three chunks, one of them begun with the
\* words of the chunk before it.
C20_Witness ==
    /\ pc = "return"
    /\ ret.op = "create_semantic_chunks"
    /\ Len(chunks) = 3
    /\ Len(ret.value) = 3
    /\ chunk_overlap > 0
    /\ \E i \in 1..3 : Len(chunks[i].paragraph_numbers) >= 2

\* ------------------------------------------------------- properties: tables

\* C21: the text of a table has exactly one line per row of the table, in
\* row order, each the row's cells joined by the cell delimiter, for any
\* table, empty rows and empty cells included.
C21_OneLinePerRow ==
    ret.op = "_table_to_text" =>
        ret.value = PyJoin(<<"\n">>,
                           [i \in 1..Len(call_args.table_data) |->
                              RowText(call_args.table_data[i])])

\* ------------------------------------------- properties: order and coverage

\* C23: in the chunk list the chunks are in the order of the input pages;
\* within one page every paragraph chunk comes before (and has a smaller
\* chunk_id than) every table chunk, the paragraph chunks are in paragraph
\* order and the table chunks in table order.
C23_ChunkOrder ==
    \A i, j \in 1..Len(chunks) :
        i < j =>
            /\ chunks[i].chunk_id < chunks[j].chunk_id
            /\ chunks[i].page_number <= chunks[j].page_number
            /\ chunks[i].page_number = chunks[j].page_number =>
                 /\ ~(chunks[i].chunk_type = "table" /\ chunks[j].chunk_type = "paragraph")
                 /\ (chunks[i].chunk_type = "paragraph" /\ chunks[j].chunk_type = "paragraph")
                      => \A a \in 1..Len(chunks[i].paragraph_numbers),
                            b \in 1..Len(chunks[j].paragraph_numbers) :
                              chunks[i].paragraph_numbers[a] < chunks[j].paragraph_numbers[b]
                 /\ (chunks[i].chunk_type = "table" /\ chunks[j].chunk_type = "table")
                      => chunks[i].table_id[3] < chunks[j].table_id[3]

\* A returned list: two paragraph chunks and a table chunk of page 1, then a
\* paragraph chunk and a table chunk of page 2.
C23_Witness ==
    /\ pc = "return"
    /\ Len(chunks) = 5
    /\ \A i \in 1..3 : chunks[i].page_number = 1
    /\ \A i \in 4..5 : chunks[i].page_number = 2
    /\ [i \in 1..5 |-> chunks[i].chunk_type]
         = <<"paragraph", "paragraph", "table", "paragraph", "table">>
\* The paragraph of page p (by position) that carries paragraph_id id.
ParagraphById(p, id) ==
    LET paragraphs == document_content.pages[p].paragraphs
    IN  paragraphs[CHOOSE k \in 1..Len(paragraphs) : paragraphs[k].paragraph_id = id]

\* text ends with suffix
EndsWith(text, suffix) ==
    /\ Len(suffix) <= Len(text)
    /\ SubSeq(text, Len(text) - Len(suffix) + 1, Len(text)) = suffix

\* The pages whose paragraphs the run has been through.
PagesDone ==
    { p \in 1..Len(document_content.pages) :
        \/ p < page_i
        \/ p = page_i /\ pc \in {"tables", "page", "return"} }

\* C24: a paragraph longer than chunk_size is neither split nor dropped: the
\* chunk that lists it lists only that paragraph and its content ends with
\* the paragraph's whole text, every such paragraph of a finished page is
\* listed in a chunk, and no paragraph chunk has empty content.
C24_LongParagraphKeptWhole ==
    /\ \A i \in ParagraphChunks :
         /\ chunks[i].content # <<>>
         /\ \A a \in 1..Len(chunks[i].paragraph_numbers) :
              LET para == ParagraphById(chunks[i].page_number,
                                        chunks[i].paragraph_numbers[a])
              IN  Len(para.text) > chunk_size =>
                    /\ chunks[i].paragraph_numbers = <<para.paragraph_id>>
                    /\ EndsWith(chunks[i].content, para.text)
    /\ \A p \in PagesDone :
         \A k \in 1..Len(document_content.pages[p].paragraphs) :
            LET para == document_content.pages[p].paragraphs[k]
            IN  Len(para.text) > chunk_size =>
                  \E i \in ParagraphChunks :
                     /\ chunks[i].page_number = document_content.pages[p].page_number
                     /\ chunks[i].paragraph_numbers = <<para.paragraph_id>>

\* A returned list in which a paragraph longer than chunk_size opens its
\* page as a chunk of its own, and another one follows overlap words.
C24_Witness ==
    /\ pc = "return"
    /\ \E i, j \in ParagraphChunks :
          /\ i # j
          /\ Len(chunks[i].paragraph_numbers) = 1
          /\ Len(chunks[j].paragraph_numbers) = 1
          /\ LET pi == ParagraphById(chunks[i].page_number, chunks[i].paragraph_numbers[1])
                 pj == ParagraphById(chunks[j].page_number, chunks[j].paragraph_numbers[1])
             IN  /\ Len(pi.text) > chunk_size
                 /\ chunks[i].content = pi.text
                 /\ Len(pj.text) > chunk_size
                 /\ Len(chunks[j].content) > Len(pj.text)

RECURSIVE ListedParagraphs(_, _)
\* The paragraph_numbers of the paragraph chunks of page number page_num
\* among the first n chunks, concatenated in chunk order.
ListedParagraphs(page_num, n) ==
    IF n = 0 THEN <<>>
    ELSE ListedParagraphs(page_num, n - 1)
         \o (IF chunks[n].chunk_type = "paragraph" /\ chunks[n].page_number = page_num
             THEN chunks[n].paragraph_numbers ELSE <<>>)

\* C28: for a finished page (its paragraphs all of non-empty text) the
\* paragraph_numbers of its paragraph chunks, concatenated in chunk order,
\* are the page's paragraph ids in order: each id in exactly one chunk, and
\* a paragraph that only gave overlap words to a chunk is not listed in it.
C28_ParagraphNumbersPartition ==
    \A p \in PagesDone :
        LET page == document_content.pages[p]
        IN  ListedParagraphs(page.page_number, Len(chunks))
              = [k \in 1..Len(page.paragraphs) |-> page.paragraphs[k].paragraph_id]

\* A returned list where a page of three paragraphs gave two or more chunks
\* and a chunk holds more words than the paragraphs it lists.
C28_Witness ==
    /\ pc = "return"
    /\ chunk_overlap > 0
    /\ \E p \in 1..Len(document_content.pages) :
          /\ Len(document_content.pages[p].paragraphs) = 3
          /\ \E i \in ParagraphChunks :
                /\ chunks[i].page_number = document_content.pages[p].page_number
                /\ i > 1
                /\ chunks[i].word_count >
                     SumSeq([a \in 1..Len(chunks[i].paragraph_numbers) |->
                               Len(PySplit(ParagraphById(p, chunks[i].paragraph_numbers[a]).text))])
\* ------------------------------------------- properties: the stored fit state

\* C25: after any sequence of operations on the engine, fitted = True means
\* that the vectorizer it holds has been fit (so that no later call
\* transforms with an unfit model).
C25_FittedMeansFit ==
    fitted => vectorizer.is_fit

\* The file a load found gives the cache-miss result: it is missing,
\* unreadable, or a dict without its 'vectorizer' or its 'embeddings'.
IsCacheMiss(f) ==
    \/ f.kind \in {"missing", "corrupt"}
    \/ f.kind = "dict" /\ (~f.has_vectorizer \/ ~f.has_embeddings)

\* C26: a load_embeddings that gives the empty cache-miss result leaves
\* fitted and the held vectorizer as they were before the call.
C26_CacheMissLeavesEngine ==
    [][(/\ ret'.op = "load_embeddings"
        /\ \E file_path \in Paths : IsCacheMiss(files[file_path]))
       => (fitted' = fitted /\ vectorizer' = vectorizer)]_vars

\* --------------------------------------------- properties: the graph database

\* C27: on an available database where initialize_database declared
\* chunk_id unique, after any save_document calls for documents of distinct
\* names every call has completed (a call that did not complete leaves its
\* Document in 'processing'): every stored Document has processing_status
\* 'completed' and exactly total_chunks chunks attached.
C27_EveryDocumentCompleted ==
    (graph.driver /\ "chunk_id" \in graph.constraints) =>
        /\ \A i \in 1..Len(graph.documents) :
              /\ graph.documents[i].processing_status = "completed"
              /\ Cardinality(ChunksOf(graph, graph.documents[i].name))
                   = graph.documents[i].total_chunks

\* C29: in mock mode (driver is None) every GraphManager operation
\* completes with a result and never raises.
C29_MockModeNeverRaises ==
    ~graph.driver => ~ret.raised
\* ------------------------------------------ properties: combined results

RECURSIVE FirstOfEachChunk(_, _)
\* The first k of all, without every result whose chunk (document and chunk
\* id) an earlier one of all has.
FirstOfEachChunk(all, k) ==
    IF k = 0 THEN <<>>
    ELSE FirstOfEachChunk(all, k - 1)
         \o (IF \E j \in 1..(k - 1) :
                   /\ all[j].document_name = all[k].document_name
                   /\ all[j].chunk_id = all[k].chunk_id
             THEN <<>> ELSE <<all[k]>>)

\* C30: the combined list is the text results followed by the semantic
\* results, without exactly those results whose chunk (same document and
\* same chunk id) appears earlier in it: different chunks, such as chunk 1
\* of two documents, are both kept.
C30_DropsOnlySameChunk ==
    ret.op = "_combine_results" =>
        LET all == [i \in DOMAIN call_args.text_results |->
                       Tagged(call_args.text_results[i], "text")]
                   \o [i \in DOMAIN call_args.semantic_results |->
                         Tagged(call_args.semantic_results[i], "semantic")]
        IN  [i \in DOMAIN ret.value |->
               [document_name |-> ret.value[i].document_name,
                chunk_id |-> ret.value[i].chunk_id]]
            = [i \in DOMAIN FirstOfEachChunk(all, Len(all)) |->
                 [document_name |-> FirstOfEachChunk(all, Len(all))[i].document_name,
                  chunk_id |-> FirstOfEachChunk(all, Len(all))[i].chunk_id]]

====
